---- MODULE Spec2Model ----
(***************************************************************************)
(* Model of candle-onnx/src/eval.rs: simple_eval, the eager evaluator of   *)
(* an ONNX graph over a name -> tensor environment.                        *)
(*                                                                         *)
(* A runtime tensor is a record [dtype, dims, data].  data is a term:      *)
(* <<"lit", elems>> for a tensor built from stored elements, and           *)
(* <<kernel, args...>> for the result of a backend kernel, so that two     *)
(* tensors are equal exactly when the same kernels were applied to the     *)
(* same operands with the same arguments.                                  *)
(* Rust's Option<T> is a sequence of length 0 (None) or 1 (Some).          *)
(* Rust's Result<T> is a record tagged "Ok", "Err" or "Panic".             *)
(***************************************************************************)
EXTENDS Integers, Sequences, FiniteSets, TLC

VARIABLES model, inputs, values, pc, idx, status, error, result, executed

vars == <<model, inputs, values, pc, idx, status, error, result, executed>>

(* ------------------------------ bounds --------------------------------- *)
MaxNodes == 2
MaxInputs == 2
MaxOutputs == 2
MaxTargetLen == 3

(* --------------------------- Result values ----------------------------- *)
Ok(v) == [tag |-> "Ok", value |-> v]
Err(kind, what) == [tag |-> "Err", kind |-> kind, what |-> what]
Panic(what) == [tag |-> "Panic", kind |-> "Panic", what |-> what]

None == <<>>
Some(v) == <<v>>
IsSome(o) == Len(o) > 0

EmptyMap == [n \in {} |-> 0]

(* HashMap::insert: overwrite semantics *)
MapInsert(m, k, v) == [n \in DOMAIN m \cup {k} |-> IF n = k THEN v ELSE m[n]]
(* HashMap::remove *)
MapRemove(m, k) == [n \in DOMAIN m \ {k} |-> m[n]]

(* --------------------------- sequence helpers -------------------------- *)
RECURSIVE Product(_)
Product(s) == IF Len(s) = 0 THEN 1 ELSE Head(s) * Product(Tail(s))

Range(s) == {s[i] : i \in 1..Len(s)}
SeqMax(a, b) == IF a >= b THEN a ELSE b
RemoveAt(s, i) == [j \in 1..(Len(s) - 1) |-> IF j < i THEN s[j] ELSE s[j + 1]]
SetAt(s, i, v) == [j \in 1..Len(s) |-> IF j = i THEN v ELSE s[j]]

(* all sequences over S of length 0..n *)
RECURSIVE SeqsUpTo(_, _)
SeqsUpTo(S, n) == 
  IF n = 0 THEN {<<>>}
  ELSE LET shorter == SeqsUpTo(S, n - 1)
       IN shorter \cup {Append(s, x) : s \in {t \in shorter : Len(t) = n - 1}, x \in S}

(* ------------------------- DTypeMapper --------------------------------- *)
(* onnx::tensor_proto::DataType::try_from(i32): the wire enumeration *)
DataTypeTryFrom(n) ==
  CASE n = 1 -> Ok("Float")
    [] n = 2 -> Ok("Uint8")
    [] n = 6 -> Ok("Int32")
    [] n = 7 -> Ok("Int64")
    [] n = 9 -> Ok("Bool")
    [] n = 10 -> Ok("Float16")
    [] n = 11 -> Ok("Double")
    [] n = 12 -> Ok("Uint32")
    [] OTHER -> Err("UnknownEnum", "")

(* pub fn dtype(dt: DataType) -> Option<DType> *)
dtype(dt) ==
  CASE dt = "Uint8" -> Some("U8")
    [] dt = "Uint32" -> Some("U32")
    [] dt = "Int64" -> Some("I64")
    [] dt = "Float16" -> Some("F16")
    [] dt = "Float" -> Some("F32")
    [] dt = "Double" -> Some("F64")
    [] OTHER -> None

(* --------------------------- tensor backend ---------------------------- *)
Tensor(dt, dims, data) == [dtype |-> dt, dims |-> dims, data |-> data]
Rank(t) == Len(t.dims)
ElemCount(t) == Product(t.dims)

(* Tensor::from_slice / Tensor::from_raw_buffer: element count must fit dims *)
FromSlice(elems, dims, dt) ==
  IF Len(elems) # Product(dims) THEN Err("Backend", "shape")
  ELSE Ok(Tensor(dt, dims, <<"lit", elems>>))

(* Tensor::to_vec1::<i64>: the elements of a rank-1 I64 tensor.  Elements  *)
(* of a tensor computed by a kernel are not tracked: the oracle stands for *)
(* whatever they are.                                                      *)
ToVec1I64(t, oracle) ==
  IF Rank(t) # 1 THEN Err("Backend", "rank")
  ELSE IF t.dtype # "I64" THEN Err("Backend", "dtype")
  ELSE IF t.data[1] = "lit" THEN Ok(t.data[2])
  ELSE IF Len(oracle) = t.dims[1] THEN Ok(oracle) ELSE Err("Backend", "oracle")

(* dimension k counted from the right, 1 when absent *)
RDim(s, k) == IF k <= Len(s) THEN s[Len(s) - k + 1] ELSE 1

BroadcastCompatible(a, b) ==
  \A k \in 1..SeqMax(Len(a), Len(b)) :
     RDim(a, k) = RDim(b, k) \/ RDim(a, k) = 1 \/ RDim(b, k) = 1

BroadcastShape(a, b) ==
  LET n == SeqMax(Len(a), Len(b))
  IN [i \in 1..n |-> IF RDim(a, n - i + 1) = 1 THEN RDim(b, n - i + 1)
                     ELSE RDim(a, n - i + 1)]

(* broadcast_add, broadcast_sub, broadcast_mul, broadcast_div,             *)
(* broadcast_maximum, broadcast_minimum                                    *)
BroadcastBinary(op, a, b) ==
  IF a.dtype # b.dtype THEN Err("Backend", "dtype")
  ELSE IF ~BroadcastCompatible(a.dims, b.dims) THEN Err("Backend", "shape")
  ELSE Ok(Tensor(a.dtype, BroadcastShape(a.dims, b.dims), <<op, a.data, b.data>>))

(* Tensor::eq: same shape and dtype, result is U8 *)
TensorEq(a, b) ==
  IF a.dtype # b.dtype THEN Err("Backend", "dtype")
  ELSE IF a.dims # b.dims THEN Err("Backend", "shape")
  ELSE Ok(Tensor("U8", a.dims, <<"eq", a.data, b.data>>))

(* Tensor::broadcast_matmul: (.., m, k) x (.., k, n) -> (.., m, n) *)
BroadcastMatmul(a, b) ==
  LET ra == Rank(a)
      rb == Rank(b)
      ba == SubSeq(a.dims, 1, ra - 2)
      bb == SubSeq(b.dims, 1, rb - 2)
  IN IF ra < 2 \/ rb < 2 THEN Err("Backend", "rank")
     ELSE IF a.dtype # b.dtype THEN Err("Backend", "dtype")
     ELSE IF a.dims[ra] # b.dims[rb - 1] THEN Err("Backend", "shape")
     ELSE IF ~BroadcastCompatible(ba, bb) THEN Err("Backend", "shape")
     ELSE Ok(Tensor(a.dtype, BroadcastShape(ba, bb) \o <<a.dims[ra - 1], b.dims[rb]>>,
                    <<"matmul", a.data, b.data>>))

(* unary kernels: abs, cos, sin, neg, erf, tanh, sigmoid, gelu_erf, relu, sqrt *)
Unary(op, a) == Ok(Tensor(a.dtype, a.dims, <<op, a.data>>))

(* Tensor + f64 *)
AddScalar(a, c) == Ok(Tensor(a.dtype, a.dims, <<"add_scalar", c, a.data>>))

(* Tensor::reshape: element counts must agree, the elements stay as they are *)
TensorReshape(a, dims) ==
  IF Product(dims) # ElemCount(a) THEN Err("Backend", "shape")
  ELSE Ok(Tensor(a.dtype, dims, a.data))

(* Tensor::dim(idx), idx 0-based *)
TensorDim(a, i) == IF i < Rank(a) THEN Ok(a.dims[i + 1]) ELSE Err("Backend", "dim")

(* candle_nn::ops::softmax_last_dim *)
SoftmaxLastDim(a) ==
  IF Rank(a) = 0 THEN Err("Backend", "rank")
  ELSE Ok(Tensor(a.dtype, a.dims, <<"softmax_last_dim", a.data>>))

(* candle_nn::ops::softmax(xs, dim) and log_softmax(xs, dim), dim 0-based *)
SoftmaxAxis(op, a, axis) ==
  IF axis >= Rank(a) THEN Err("Backend", "dim")
  ELSE Ok(Tensor(a.dtype, a.dims, <<op, axis, a.data>>))

(* Tensor::t: swaps the two last dimensions, fails below rank 2 *)
TensorT(a) ==
  LET r == Rank(a)
  IN IF r < 2 THEN Err("Backend", "rank")
     ELSE Ok(Tensor(a.dtype,
                    [i \in 1..r |-> IF i = r - 1 THEN a.dims[r]
                                    ELSE IF i = r THEN a.dims[r - 1] ELSE a.dims[i]],
                    <<"t", a.data>>))

(* Tensor::permute(perm): perm must be a permutation of 0..rank-1 *)
TensorPermute(a, perm) ==
  IF Len(perm) # Rank(a) \/ Range(perm) # 0..(Rank(a) - 1) THEN Err("Backend", "perm")
  ELSE Ok(Tensor(a.dtype, [i \in 1..Len(perm) |-> a.dims[perm[i] + 1]],
                 <<"permute", perm, a.data>>))

(* Tensor::squeeze(dim), dim 0-based: a dimension of size 1 is removed,    *)
(* any other size leaves the tensor as it is                               *)
TensorSqueeze(a, axis) ==
  IF axis < 0 \/ axis >= Rank(a) THEN Err("Backend", "dim")
  ELSE IF a.dims[axis + 1] = 1 THEN Ok(Tensor(a.dtype, RemoveAt(a.dims, axis + 1), a.data))
  ELSE Ok(a)

(* Tensor::pad_with_zeros(dim, left, right) *)
PadWithZeros(a, dim, left, right) ==
  IF dim >= Rank(a) THEN Err("Backend", "dim")
  ELSE IF left = 0 /\ right = 0 THEN Ok(a)
  ELSE Ok(Tensor(a.dtype, SetAt(a.dims, dim + 1, a.dims[dim + 1] + left + right),
                 <<"pad_with_zeros", dim, left, right, a.data>>))

(* Tensor::to_dtype *)
ToDType(a, dt) == Ok(Tensor(dt, a.dims, IF dt = a.dtype THEN a.data ELSE <<"to_dtype", dt, a.data>>))

(* output extent of a convolution or pooling window *)
WindowOut(l, k, pad, stride, dil) == (l + 2 * pad - dil * (k - 1) - 1) \div stride + 1

(* Tensor::max_pool2d_with_stride / avg_pool2d_with_stride on (b, c, h, w) *)
Pool2d(op, a, k1, k2, s1, s2) ==
  IF Rank(a) # 4 THEN Err("Backend", "rank")
  ELSE IF s1 <= 0 \/ s2 <= 0 \/ k1 <= 0 \/ k2 <= 0 THEN Panic("pool arithmetic")
  ELSE IF a.dims[3] < k1 \/ a.dims[4] < k2 THEN Panic("pool arithmetic")
  ELSE Ok(Tensor(a.dtype,
                 <<a.dims[1], a.dims[2], WindowOut(a.dims[3], k1, 0, s1, 1),
                   WindowOut(a.dims[4], k2, 0, s2, 1)>>,
                 <<op, k1, k2, s1, s2, a.data>>))

(* Tensor::conv1d on (b, c_in, l) with kernel (c_out, c_in / groups, k) *)
Conv1d(a, w, pad, stride, dil, groups) ==
  IF Rank(a) # 3 \/ Rank(w) # 3 THEN Err("Backend", "rank")
  ELSE IF a.dtype # w.dtype THEN Err("Backend", "dtype")
  ELSE IF groups <= 0 \/ stride <= 0 \/ dil <= 0 \/ pad < 0 THEN Err("Backend", "conv")
  ELSE IF a.dims[2] # w.dims[2] * groups \/ w.dims[1] % groups # 0 THEN Err("Backend", "shape")
  ELSE IF a.dims[3] + 2 * pad < dil * (w.dims[3] - 1) + 1 THEN Err("Backend", "shape")
  ELSE Ok(Tensor(a.dtype,
                 <<a.dims[1], w.dims[1], WindowOut(a.dims[3], w.dims[3], pad, stride, dil)>>,
                 <<"conv1d", pad, stride, dil, groups, a.data, w.data>>))

(* Tensor::conv2d on (b, c_in, h, w) with kernel (c_out, c_in / groups, kh, kw) *)
Conv2d(a, w, pad, stride, dil, groups) ==
  IF Rank(a) # 4 \/ Rank(w) # 4 THEN Err("Backend", "rank")
  ELSE IF a.dtype # w.dtype THEN Err("Backend", "dtype")
  ELSE IF groups <= 0 \/ stride <= 0 \/ dil <= 0 \/ pad < 0 THEN Err("Backend", "conv")
  ELSE IF a.dims[2] # w.dims[2] * groups \/ w.dims[1] % groups # 0 THEN Err("Backend", "shape")
  ELSE IF a.dims[3] + 2 * pad < dil * (w.dims[3] - 1) + 1
          \/ a.dims[4] + 2 * pad < dil * (w.dims[4] - 1) + 1 THEN Err("Backend", "shape")
  ELSE Ok(Tensor(a.dtype,
                 <<a.dims[1], w.dims[1], WindowOut(a.dims[3], w.dims[3], pad, stride, dil),
                   WindowOut(a.dims[4], w.dims[4], pad, stride, dil)>>,
                 <<"conv2d", pad, stride, dil, groups, a.data, w.data>>))

(* Tensor::cat(tensors, dim): same rank and dtype, equal dims off the axis *)
TensorCat(ts, axis) ==
  LET t1 == ts[1]
      r == Rank(t1)
  IN IF axis >= r THEN Err("Backend", "dim")
     ELSE IF \E i \in 1..Len(ts) : ts[i].dtype # t1.dtype \/ Rank(ts[i]) # r
       THEN Err("Backend", "shape")
     ELSE IF \E i \in 1..Len(ts) : \E d \in 1..r : d # axis + 1 /\ ts[i].dims[d] # t1.dims[d]
       THEN Err("Backend", "shape")
     ELSE LET RECURSIVE Sum(_)
              Sum(i) == IF i = 0 THEN 0 ELSE ts[i].dims[axis + 1] + Sum(i - 1)
          IN Ok(Tensor(t1.dtype, SetAt(t1.dims, axis + 1, Sum(Len(ts))),
                       <<"cat", axis, [i \in 1..Len(ts) |-> ts[i].data]>>))

(* ----------------------- Result plumbing (the ? operator) -------------- *)
Bind(r, F(_)) == IF r.tag = "Ok" THEN F(r.value) ELSE r

(* collect::<Result<Vec<_>>>: the first failure, else all the values *)
Collect(rs) ==
  LET bad == {i \in 1..Len(rs) : rs[i].tag # "Ok"}
  IN IF bad = {} THEN Ok([i \in 1..Len(rs) |-> rs[i].value])
     ELSE rs[CHOOSE i \in bad : \A j \in bad : i <= j]

(* ------------------------- AttributeAccessor --------------------------- *)
InvalidUtf8 == "<invalid utf-8>"

(* impl Attr for i64 / f32 / [i64] / str *)
AttrGet(T, attr) ==
  CASE T = "Int" -> Ok(attr.i)
    [] T = "Float" -> Ok(attr.f)
    [] T = "Ints" -> Ok(attr.ints)
    [] T = "String" -> IF attr.s = InvalidUtf8 THEN Err("InvalidUtf8", attr.name) ELSE Ok(attr.s)

(* node.attribute.iter().find(|attr| attr.name == name) *)
FindAttr(node, name) ==
  LET hits == {k \in 1..Len(node.attribute) : node.attribute[k].name = name}
  IN IF hits = {} THEN None
     ELSE Some(node.attribute[CHOOSE k \in hits : \A j \in hits : k <= j])

get_attr_(node, name) ==
  IF IsSome(FindAttr(node, name)) THEN Ok(FindAttr(node, name)[1])
  ELSE Err("MissingAttribute", name)

get_attr(node, name, T) ==
  Bind(get_attr_(node, name), LAMBDA attr :
    IF attr.type # T THEN Err("AttributeTypeMismatch", name) ELSE AttrGet(T, attr))

get_attr_opt(node, name, T) ==
  IF ~IsSome(FindAttr(node, name)) THEN Ok(None)
  ELSE LET attr == FindAttr(node, name)[1]
       IN IF attr.type # T THEN Err("AttributeTypeMismatch", name)
          ELSE Bind(AttrGet(T, attr), LAMBDA val : Ok(Some(val)))

(* ------------------------- TensorMaterializer -------------------------- *)
get_tensor(t, name) ==
  LET dt == DataTypeTryFrom(t.data_type)
  IN IF dt.tag # "Ok" THEN Err("UnsupportedDataType", name)
     ELSE IF ~IsSome(dtype(dt.value)) THEN Err("UnsupportedDataType", name)
     ELSE LET d == dtype(dt.value)[1]
          IN IF d = "F32" /\ t.float_data # <<>> THEN FromSlice(t.float_data, t.dims, d)
             ELSE IF d = "F64" /\ t.double_data # <<>> THEN FromSlice(t.double_data, t.dims, d)
             ELSE IF d = "I64" /\ t.int64_data # <<>> THEN FromSlice(t.int64_data, t.dims, d)
             ELSE FromSlice(t.raw_data, t.dims, d)

(* ------------------------- node handlers ------------------------------- *)
(* variant: a name that is not bound reads as an empty tensor *)
GetDefaultsMissing(node, vals, i) ==
  IF i > Len(node.input) THEN Panic("index out of bounds")
  ELSE IF node.input[i] \in DOMAIN vals THEN Ok(vals[node.input[i]])
  ELSE Ok(Tensor("F32", <<0>>, <<"lit", <<>>>>))

(* the closure `get`: node.input[i] (0-based in the code, 1-based here)    *)
(* looked up in the environment                                            *)
Get(node, vals, i) ==
  IF i > Len(node.input) THEN Panic("index out of bounds")
  ELSE IF node.input[i] \in DOMAIN vals THEN Ok(vals[node.input[i]])
  ELSE Err("MissingValue", node.input[i])

(* "Add" "Sub" "Mul" "Div" *)
OpBroadcast(node, vals, kernel) ==
  Bind(Get(node, vals, 1), LAMBDA input0 :
  Bind(Get(node, vals, 2), LAMBDA input1 : BroadcastBinary(kernel, input0, input1)))

OpEqual(node, vals) ==
  Bind(Get(node, vals, 1), LAMBDA input0 :
  Bind(Get(node, vals, 2), LAMBDA input1 : TensorEq(input0, input1)))

OpMatMul(node, vals) ==
  Bind(Get(node, vals, 1), LAMBDA input0 :
  Bind(Get(node, vals, 2), LAMBDA input1 : BroadcastMatmul(input0, input1)))

(* Reshape: the product of the target entries other than -1 and 0 *)
OtherThanMinus1(target) ==
  Product([i \in 1..Len(target) |-> IF target[i] # -1 /\ target[i] # 0 THEN target[i] ELSE 1])

(* Reshape: the resolved dimension list, before the backend's reshape.     *)
(* Entries below -1 wrap around in `as usize`; targets are kept >= -1.     *)
ResolveShape(input0, target) ==
  Collect([i \in 1..Len(target) |->
             CASE target[i] = -1 -> Ok(ElemCount(input0) \div OtherThanMinus1(target))
               [] target[i] = 0 -> TensorDim(input0, i - 1)
               [] OTHER -> Ok(target[i])])

OpReshape(node, vals, oracle) ==
  Bind(Get(node, vals, 1), LAMBDA input0 :
  Bind(Get(node, vals, 2), LAMBDA shape :
  Bind(ToVec1I64(shape, oracle), LAMBDA input1 :
  Bind(ResolveShape(input0, input1), LAMBDA dims : TensorReshape(input0, dims)))))

(* the axis resolution of LogSoftmax *)
LogSoftmaxAxis(axis, num_axis) ==
  IF axis >= 0 THEN Ok(axis)
  ELSE IF axis < -num_axis THEN Err("UnsupportedAttributeConfiguration", "axis")
  ELSE Ok(num_axis - axis)

OpLogSoftmax(node, vals) ==
  Bind(Get(node, vals, 1), LAMBDA input :
  Bind(get_attr_opt(node, "axis", "Int"), LAMBDA a :
    IF ~IsSome(a) THEN SoftmaxLastDim(input)
    ELSE Bind(LogSoftmaxAxis(a[1], Rank(input)), LAMBDA axis :
              SoftmaxAxis("log_softmax", input, axis))))

(* the axis resolution of Softmax *)
SoftmaxAxisOf(axis, num_axis) ==
  IF axis >= 0 THEN Ok(axis)
  ELSE IF axis < -num_axis THEN Err("UnsupportedAttributeConfiguration", "axis")
  ELSE Ok(num_axis - axis)

OpSoftmax(node, vals) ==
  Bind(Get(node, vals, 1), LAMBDA input :
  Bind(get_attr_opt(node, "axis", "Int"), LAMBDA a :
    IF ~IsSome(a) THEN SoftmaxLastDim(input)
    ELSE Bind(SoftmaxAxisOf(a[1], Rank(input)), LAMBDA axis :
              SoftmaxAxis("softmax", input, axis))))

OpTranspose(node, vals) ==
  Bind(Get(node, vals, 1), LAMBDA input :
  Bind(get_attr_opt(node, "perm", "Ints"), LAMBDA p :
    IF ~IsSome(p) THEN TensorT(input) ELSE TensorPermute(input, p[1])))

OpDropout(node, vals) == Bind(Get(node, vals, 1), LAMBDA input : Ok(input))

(* "MaxPool" (kernel max_pool2d) and "AveragePool" (kernel avg_pool2d) *)
OpPool(node, vals, kernel) ==
  Bind(get_attr_opt(node, "dilations", "Ints"), LAMBDA dilations :
  Bind(get_attr(node, "kernel_shape", "Ints"), LAMBDA kernel_shape :
  Bind(get_attr_opt(node, "pads", "Ints"), LAMBDA pads :
  Bind(get_attr_opt(node, "strides", "Ints"), LAMBDA strides :
  Bind(get_attr_opt(node, "auto_pad", "String"), LAMBDA auto_pad :
    IF IsSome(auto_pad) /\ auto_pad # Some("NOTSET")
      THEN Err("UnsupportedAttributeConfiguration", "auto_pad")
    ELSE IF IsSome(dilations) /\ (\E i \in 1..Len(dilations[1]) : dilations[1][i] # 1)
      THEN Err("UnsupportedAttributeConfiguration", "dilations")
    ELSE IF IsSome(pads) /\ (\E i \in 1..Len(pads[1]) : pads[1][i] # 0)
      THEN Err("UnsupportedAttributeConfiguration", "pads")
    ELSE Bind(Get(node, vals, 1), LAMBDA xs :
      IF Len(kernel_shape) # 2 THEN Err("UnsupportedAttributeConfiguration", "kernel_shape")
      ELSE IF ~IsSome(strides)
        THEN Pool2d(kernel, xs, kernel_shape[1], kernel_shape[2], kernel_shape[1], kernel_shape[2])
      ELSE IF Len(strides[1]) = 2
        THEN Pool2d(kernel, xs, kernel_shape[1], kernel_shape[2], strides[1][1], strides[1][2])
      ELSE Err("UnsupportedAttributeConfiguration", "strides")))))))

DefaultEpsilon == "1e-5"

OpBatchNormalization(node, vals) ==
  Bind(get_attr_opt(node, "training_mode", "Int"), LAMBDA training_mode :
    IF IsSome(training_mode) /\ training_mode[1] # 0
      THEN Err("UnsupportedAttributeConfiguration", "training_mode")
    ELSE
  Bind(get_attr_opt(node, "epsilon", "Float"), LAMBDA e :
  LET eps == IF IsSome(e) THEN e[1] ELSE DefaultEpsilon IN
  Bind(Get(node, vals, 1), LAMBDA xs :
  Bind(Get(node, vals, 2), LAMBDA weight :
  Bind(Get(node, vals, 3), LAMBDA bias :
  Bind(Get(node, vals, 4), LAMBDA running_mean :
  Bind(Get(node, vals, 5), LAMBDA running_var :
  LET target_shape == [i \in 1..Rank(xs) |-> IF i = 2 THEN xs.dims[i] ELSE 1] IN
  Bind(TensorReshape(running_mean, target_shape), LAMBDA mean :
  Bind(BroadcastBinary("sub", xs, mean), LAMBDA centred :
  Bind(TensorReshape(running_var, target_shape), LAMBDA var :
  Bind(AddScalar(var, eps), LAMBDA var_eps :
  Bind(Unary("sqrt", var_eps), LAMBDA std :
  Bind(BroadcastBinary("div", centred, std), LAMBDA normed :
  Bind(TensorReshape(weight, target_shape), LAMBDA w :
  Bind(TensorReshape(bias, target_shape), LAMBDA b :
  Bind(BroadcastBinary("mul", normed, w), LAMBDA scaled :
       BroadcastBinary("add", scaled, b)))))))))))))))))

(* axes.sort() followed by iteration in reverse: the axes from highest to lowest *)
RECURSIVE SortDesc(_)
SortDesc(s) ==
  IF Len(s) = 0 THEN <<>>
  ELSE LET m == CHOOSE i \in 1..Len(s) : \A j \in 1..Len(s) : s[i] >= s[j]
       IN <<s[m]>> \o SortDesc(RemoveAt(s, m))

(* for &axis in axes.iter().rev() { xs = xs.squeeze(axis)? } *)
RECURSIVE SqueezeAll(_, _)
SqueezeAll(xs, axes) ==
  IF Len(axes) = 0 THEN Ok(xs)
  ELSE Bind(TensorSqueeze(xs, Head(axes)), LAMBDA ys : SqueezeAll(ys, Tail(axes)))

(* Squeeze without an axes input: every size-1 dimension but the first *)
DefaultSqueezeAxes(xs) ==
  LET keep == {i \in 1..Rank(xs) : xs.dims[i] = 1 /\ i - 1 > 0}
      RECURSIVE Asc(_)
      Asc(S) == IF S = {} THEN <<>>
                ELSE LET m == CHOOSE i \in S : \A j \in S : i <= j
                     IN <<m - 1>> \o Asc(S \ {m})
  IN Asc(keep)

(* variant: negative entries of the axes input are used as they are *)
GivenSqueezeAxesUnresolved(xs, axes) ==
  [k \in 1..Len(axes) |-> axes[k]]

(* Squeeze with an axes input: negative entries count from the end *)
GivenSqueezeAxes(xs, axes) ==
  [k \in 1..Len(axes) |-> IF axes[k] < 0 THEN Rank(xs) + axes[k] ELSE axes[k]]

OpSqueeze(node, vals, oracle) ==
  Bind(Get(node, vals, 1), LAMBDA xs :
    IF Len(node.input) <= 1 THEN SqueezeAll(xs, SortDesc(DefaultSqueezeAxes(xs)))
    ELSE Bind(Get(node, vals, 2), LAMBDA t :
         Bind(ToVec1I64(t, oracle), LAMBDA axes :
              SqueezeAll(xs, SortDesc(GivenSqueezeAxes(xs, axes))))))

OpClip(node, vals) ==
  Bind(Get(node, vals, 1), LAMBDA xs :
  Bind(IF Len(node.input) >= 2
         THEN Bind(Get(node, vals, 2), LAMBDA mins : BroadcastBinary("maximum", xs, mins))
         ELSE Ok(xs), LAMBDA lower :
       IF Len(node.input) >= 3
         THEN Bind(Get(node, vals, 3), LAMBDA maxs : BroadcastBinary("minimum", lower, maxs))
         ELSE Ok(lower)))

(* Conv with a rank-3 weight: the scalar pad given to conv1d and the input it gets *)
Conv1dPads(pads, xs) ==
  IF ~IsSome(pads) THEN Ok(<<0, xs>>)
  ELSE IF Len(pads[1]) = 1 THEN Ok(<<pads[1][1], xs>>)
  ELSE IF Len(pads[1]) = 2
    THEN IF pads[1][1] # pads[1][2]
           THEN Bind(PadWithZeros(xs, 2, pads[1][1], pads[1][2]), LAMBDA padded : Ok(<<0, padded>>))
           ELSE Ok(<<pads[1][1], xs>>)
  ELSE Err("UnsupportedAttributeConfiguration", "pads")

(* variant: the four pads are read as (before, after) of axis 2 followed   *)
(* by (before, after) of axis 3                                            *)
Conv2dPadsPairedPerAxis(pads, xs) ==
  IF ~IsSome(pads) THEN Ok(<<0, xs>>)
  ELSE IF Len(pads[1]) = 1 THEN Ok(<<pads[1][1], xs>>)
  ELSE IF Len(pads[1]) = 4
    THEN LET p1 == pads[1][1]
             p2 == pads[1][2]
             p3 == pads[1][3]
             p4 == pads[1][4]
         IN IF p1 # p2 \/ p1 # p3 \/ p1 # p4
              THEN Bind(PadWithZeros(xs, 2, p1, p2), LAMBDA h :
                   Bind(PadWithZeros(h, 3, p3, p4), LAMBDA padded : Ok(<<0, padded>>)))
              ELSE Ok(<<p1, xs>>)
  ELSE Err("UnsupportedAttributeConfiguration", "pads")

(* Conv with a rank-4 weight: the scalar pad given to conv2d and the input it gets *)
Conv2dPads(pads, xs) ==
  IF ~IsSome(pads) THEN Ok(<<0, xs>>)
  ELSE IF Len(pads[1]) = 1 THEN Ok(<<pads[1][1], xs>>)
  ELSE IF Len(pads[1]) = 4
    THEN LET p1 == pads[1][1]
             p2 == pads[1][2]
             p3 == pads[1][3]
             p4 == pads[1][4]
         IN IF p1 # p2 \/ p1 # p3 \/ p1 # p4
              THEN Bind(PadWithZeros(xs, 2, p1, p3), LAMBDA h :
                   Bind(PadWithZeros(h, 3, p2, p4), LAMBDA padded : Ok(<<0, padded>>)))
              ELSE Ok(<<p1, xs>>)
  ELSE Err("UnsupportedAttributeConfiguration", "pads")

(* strides and dilations of a rank-3 Conv: absent gives 1, one entry is used *)
Conv1dScalar(attr, name) ==
  IF ~IsSome(attr) THEN Ok(1)
  ELSE IF Len(attr[1]) = 1 THEN Ok(attr[1][1])
  ELSE Err("UnsupportedAttributeConfiguration", name)

(* strides and dilations of a rank-4 Conv: a pair must be uniform *)
Conv2dScalar(attr, name) ==
  IF ~IsSome(attr) THEN Ok(1)
  ELSE IF Len(attr[1]) = 1 THEN Ok(attr[1][1])
  ELSE IF Len(attr[1]) = 2
    THEN IF attr[1][1] # attr[1][2] THEN Err("UnsupportedAttributeConfiguration", name)
         ELSE Ok(attr[1][1])
  ELSE Err("UnsupportedAttributeConfiguration", name)

(* the optional bias of Conv, added as shape [1, C, 1, ..] *)
ConvBias(node, vals, ys) ==
  IF Len(node.input) > 2
    THEN Bind(Get(node, vals, 3), LAMBDA bs :
         Bind(TensorReshape(bs, [i \in 1..Rank(ys) |-> IF i = 2 THEN ElemCount(bs) ELSE 1]),
              LAMBDA b : BroadcastBinary("add", ys, b)))
    ELSE Ok(ys)

OpConv(node, vals) ==
  Bind(get_attr_opt(node, "dilations", "Ints"), LAMBDA dilations :
  Bind(get_attr_opt(node, "group", "Int"), LAMBDA g :
  LET groups == IF IsSome(g) THEN g[1] ELSE 1 IN
  Bind(get_attr_opt(node, "kernel_shape", "Ints"), LAMBDA kernel_shape :
  Bind(get_attr_opt(node, "pads", "Ints"), LAMBDA pads :
  Bind(get_attr_opt(node, "strides", "Ints"), LAMBDA strides :
  Bind(get_attr_opt(node, "auto_pad", "String"), LAMBDA auto_pad :
    IF IsSome(auto_pad) /\ auto_pad # Some("NOTSET")
      THEN Err("UnsupportedAttributeConfiguration", "auto_pad")
    ELSE
  Bind(Get(node, vals, 1), LAMBDA xs :
  Bind(Get(node, vals, 2), LAMBDA ws :
  Bind(IF Rank(ws) = 3
         THEN Bind(Conv1dPads(pads, xs), LAMBDA px :
              Bind(Conv1dScalar(strides, "strides"), LAMBDA st :
              Bind(Conv1dScalar(dilations, "dilations"), LAMBDA dl :
                   Conv1d(px[2], ws, px[1], st, dl, groups))))
       ELSE IF Rank(ws) = 4
         THEN Bind(Conv2dPads(pads, xs), LAMBDA px :
              Bind(Conv2dScalar(strides, "strides"), LAMBDA st :
              Bind(Conv2dScalar(dilations, "dilations"), LAMBDA dl :
                   Conv2d(px[2], ws, px[1], st, dl, groups))))
       ELSE Err("UnsupportedAttributeConfiguration", "weight rank"),
       LAMBDA ys : ConvBias(node, vals, ys))))))))))

(* the axis resolution of Concat *)
ConcatAxis(axis, num_axis) ==
  IF axis >= 0 THEN Ok(axis)
  ELSE IF axis < -num_axis THEN Err("UnsupportedAttributeConfiguration", "axis")
  ELSE Ok(num_axis - axis)

OpConcat(node, vals) ==
  Bind(Collect([i \in 1..Len(node.input) |-> Get(node, vals, i)]), LAMBDA ins :
  Bind(get_attr(node, "axis", "Int"), LAMBDA a :
    IF Len(ins) = 0 THEN Err("UnsupportedAttributeConfiguration", "empty concat")
    ELSE Bind(ConcatAxis(a, Rank(ins[1])), LAMBDA axis : TensorCat(ins, axis))))

(* "Abs" "Cos" "Sin" "Neg" "Erf" "Tanh" "Sigmoid" "Gelu" "Relu" *)
OpUnary(node, vals, kernel) ==
  Bind(Get(node, vals, 1), LAMBDA input : Unary(kernel, input))

OpConstant(node, vals) ==
  IF ~IsSome(FindAttr(node, "value")) THEN Err("MissingAttribute", "value")
  ELSE LET value == FindAttr(node, "value")[1]
       IN IF value.type = "Tensor"
            THEN IF IsSome(value.t) THEN get_tensor(value.t[1], node.name)
                 ELSE Panic("unwrap on None")
            ELSE Err("AttributeTypeMismatch", "value")

OpCast(node, vals) ==
  Bind(Get(node, vals, 1), LAMBDA input :
  Bind(get_attr(node, "to", "Int"), LAMBDA dt :
    IF DataTypeTryFrom(dt).tag # "Ok" THEN Err("UnsupportedDataType", "to")
    ELSE IF ~IsSome(dtype(DataTypeTryFrom(dt).value)) THEN Err("UnsupportedDataType", "to")
    ELSE ToDType(input, dtype(DataTypeTryFrom(dt).value)[1])))

(* the operator types that have a match arm *)
SupportedOps ==
  {"Add", "Sub", "Mul", "Div", "Equal", "MatMul", "Reshape", "LogSoftmax", "Softmax",
   "Transpose", "Dropout", "MaxPool", "AveragePool", "BatchNormalization", "Squeeze", "Clip",
   "Conv", "Concat", "Abs", "Cos", "Sin", "Neg", "Erf", "Tanh", "Sigmoid", "Gelu", "Relu",
   "Constant", "Cast"}

(* match node.op_type.as_str(), the named arms: the tensor the node        *)
(* produces, or its failure                                                *)
EvalKnown(node, vals, oracle) ==
  CASE node.op_type = "Add" -> OpBroadcast(node, vals, "add")
    [] node.op_type = "Sub" -> OpBroadcast(node, vals, "sub")
    [] node.op_type = "Mul" -> OpBroadcast(node, vals, "mul")
    [] node.op_type = "Div" -> OpBroadcast(node, vals, "div")
    [] node.op_type = "Equal" -> OpEqual(node, vals)
    [] node.op_type = "MatMul" -> OpMatMul(node, vals)
    [] node.op_type = "Reshape" -> OpReshape(node, vals, oracle)
    [] node.op_type = "LogSoftmax" -> OpLogSoftmax(node, vals)
    [] node.op_type = "Softmax" -> OpSoftmax(node, vals)
    [] node.op_type = "Transpose" -> OpTranspose(node, vals)
    [] node.op_type = "Dropout" -> OpDropout(node, vals)
    [] node.op_type = "MaxPool" -> OpPool(node, vals, "max_pool2d")
    [] node.op_type = "AveragePool" -> OpPool(node, vals, "avg_pool2d")
    [] node.op_type = "BatchNormalization" -> OpBatchNormalization(node, vals)
    [] node.op_type = "Squeeze" -> OpSqueeze(node, vals, oracle)
    [] node.op_type = "Clip" -> OpClip(node, vals)
    [] node.op_type = "Conv" -> OpConv(node, vals)
    [] node.op_type = "Concat" -> OpConcat(node, vals)
    [] node.op_type = "Abs" -> OpUnary(node, vals, "abs")
    [] node.op_type = "Cos" -> OpUnary(node, vals, "cos")
    [] node.op_type = "Sin" -> OpUnary(node, vals, "sin")
    [] node.op_type = "Neg" -> OpUnary(node, vals, "neg")
    [] node.op_type = "Erf" -> OpUnary(node, vals, "erf")
    [] node.op_type = "Tanh" -> OpUnary(node, vals, "tanh")
    [] node.op_type = "Sigmoid" -> OpUnary(node, vals, "sigmoid")
    [] node.op_type = "Gelu" -> OpUnary(node, vals, "gelu_erf")
    [] node.op_type = "Relu" -> OpUnary(node, vals, "relu")
    [] node.op_type = "Constant" -> OpConstant(node, vals)
    [] node.op_type = "Cast" -> OpCast(node, vals)

(* variant: an operator type without an arm passes its first input through *)
EvalNodePassesUnknown(node, vals, oracle) ==
  IF node.op_type \in SupportedOps THEN EvalKnown(node, vals, oracle)
  ELSE OpDropout(node, vals)

(* match node.op_type.as_str() with its fallback arm *)
EvalNode(node, vals, oracle) ==
  IF node.op_type \in SupportedOps THEN EvalKnown(node, vals, oracle)
  ELSE Err("UnsupportedOperator", node.op_type)

(* ------------------- validation of one declared input ------------------ *)
(* the dimension list of a declared shape: DimValue gives the size,        *)
(* DimParam is refused, an unset dimension hits expect("no dim value")     *)
DeclaredDims(shape, name) ==
  Collect([k \in 1..Len(shape.dim) |->
             IF ~IsSome(shape.dim[k].value) THEN Panic("no dim value")
             ELSE IF shape.dim[k].value[1].kind = "DimValue" THEN Ok(shape.dim[k].value[1].v)
             ELSE Err("DimParamUnsupported", name)])

(* the element type of a declared input as a runtime dtype *)
DeclaredDType(tensor_type) ==
  LET dt == DataTypeTryFrom(tensor_type.elem_type)
  IN IF dt.tag # "Ok" THEN Err("UnsupportedInputType", "")
     ELSE IF ~IsSome(dtype(dt.value)) THEN Err("UnsupportedDataType", "")
     ELSE Ok(dtype(dt.value)[1])

(* variant: the dimension lists are not compared *)
ValidateInputNoShapeCheck(input, vals) ==
  IF ~IsSome(input.type) THEN Ok("continue")
  ELSE IF ~IsSome(input.type[1].value) THEN Ok("continue")
  ELSE IF input.type[1].value[1].kind # "TensorType" THEN Ok("continue")
  ELSE LET tensor_type == input.type[1].value[1]
       IN IF input.name \notin DOMAIN vals THEN Err("MissingInput", input.name)
          ELSE Bind(DeclaredDType(tensor_type), LAMBDA dt :
               IF ~IsSome(tensor_type.shape) THEN Ok("continue")
               ELSE Bind(DeclaredDims(tensor_type.shape[1], input.name), LAMBDA shape :
                    IF dt # vals[input.name].dtype THEN Err("UnexpectedDType", input.name)
                    ELSE Ok("checked")))

(* variant: a declared input that is not bound is skipped *)
ValidateInputSkipsMissing(input, vals) ==
  IF ~IsSome(input.type) THEN Ok("continue")
  ELSE IF ~IsSome(input.type[1].value) THEN Ok("continue")
  ELSE IF input.type[1].value[1].kind # "TensorType" THEN Ok("continue")
  ELSE LET tensor_type == input.type[1].value[1]
       IN IF input.name \notin DOMAIN vals THEN Ok("continue")
          ELSE Bind(DeclaredDType(tensor_type), LAMBDA dt :
               IF ~IsSome(tensor_type.shape) THEN Ok("continue")
               ELSE Bind(DeclaredDims(tensor_type.shape[1], input.name), LAMBDA shape :
                    IF dt # vals[input.name].dtype THEN Err("UnexpectedDType", input.name)
                    ELSE IF shape # vals[input.name].dims THEN Err("UnexpectedShape", input.name)
                    ELSE Ok("checked")))

(* variant: a shape with a symbolic dimension is not validated *)
ValidateInputAcceptsDimParam(input, vals) ==
  IF ~IsSome(input.type) THEN Ok("continue")
  ELSE IF ~IsSome(input.type[1].value) THEN Ok("continue")
  ELSE IF input.type[1].value[1].kind # "TensorType" THEN Ok("continue")
  ELSE LET tensor_type == input.type[1].value[1]
       IN IF input.name \notin DOMAIN vals THEN Err("MissingInput", input.name)
          ELSE Bind(DeclaredDType(tensor_type), LAMBDA dt :
               IF ~IsSome(tensor_type.shape) THEN Ok("continue")
               ELSE IF DeclaredDims(tensor_type.shape[1], input.name).tag = "Err"
                       /\ DeclaredDims(tensor_type.shape[1], input.name).kind = "DimParamUnsupported"
                 THEN Ok("continue")
               ELSE Bind(DeclaredDims(tensor_type.shape[1], input.name), LAMBDA shape :
                    IF dt # vals[input.name].dtype THEN Err("UnexpectedDType", input.name)
                    ELSE IF shape # vals[input.name].dims THEN Err("UnexpectedShape", input.name)
                    ELSE Ok("checked")))

(* the body of `for input in graph.input.iter()`: Ok means carry on *)
ValidateInput(input, vals) ==
  IF ~IsSome(input.type) THEN Ok("continue")
  ELSE IF ~IsSome(input.type[1].value) THEN Ok("continue")
  ELSE IF input.type[1].value[1].kind # "TensorType" THEN Ok("continue")
  ELSE LET tensor_type == input.type[1].value[1]
       IN IF input.name \notin DOMAIN vals THEN Err("MissingInput", input.name)
          ELSE Bind(DeclaredDType(tensor_type), LAMBDA dt :
               IF ~IsSome(tensor_type.shape) THEN Ok("continue")
               ELSE Bind(DeclaredDims(tensor_type.shape[1], input.name), LAMBDA shape :
                    IF dt # vals[input.name].dtype THEN Err("UnexpectedDType", input.name)
                    ELSE IF shape # vals[input.name].dims THEN Err("UnexpectedShape", input.name)
                    ELSE Ok("checked")))

(* ------------------------------ the machine ---------------------------- *)
NoError == [kind |-> "", what |-> "", node |-> "", phase |-> ""]
Graph == model.graph[1]

(* where control is once item i of loop p is reached: empty and finished   *)
(* loops fall through to the next one, past the last loop the call returns *)
RECURSIVE Position(_, _, _)
Position(g, p, i) ==
  CASE p = "initializer" ->
         IF i <= Len(g.initializer) THEN <<p, i>> ELSE Position(g, "input", 1)
    [] p = "input" -> IF i <= Len(g.input) THEN <<p, i>> ELSE Position(g, "node", 1)
    [] p = "node" -> IF i <= Len(g.node) THEN <<p, i>> ELSE Position(g, "output", 1)
    [] p = "output" -> IF i <= Len(g.output) THEN <<p, i>> ELSE <<"done", 0>>

Goto(p, i) ==
  /\ pc' = Position(Graph, p, i)[1]
  /\ idx' = Position(Graph, p, i)[2]
  /\ status' = IF Position(Graph, p, i)[1] = "done" THEN "ok" ELSE "running"
  /\ error' = NoError

(* bail!, or a panic: the call ends and nothing is returned; the error     *)
(* records the loop it was raised in                                       *)
Fail(r, node_name) ==
  /\ pc' = "failed"
  /\ idx' = idx
  /\ status' = IF r.tag = "Panic" THEN "panic" ELSE "err"
  /\ error' = [kind |-> r.kind, what |-> r.what, node |-> node_name, phase |-> pc]
  /\ result' = EmptyMap

(* let graph = match &model.graph ...; let mut values = inputs; *)
Begin ==
  /\ pc = "start"
  /\ IF ~IsSome(model.graph)
       THEN Fail(Err("NoGraph", ""), "") /\ UNCHANGED values
       ELSE values' = inputs /\ Goto("initializer", 1) /\ UNCHANGED result
  /\ UNCHANGED <<model, inputs, executed>>

(* variant: an initializer does not replace a tensor the caller supplied   *)
(* under the same name                                                     *)
InsertInitializerKeepsCaller ==
  /\ pc = "initializer"
  /\ LET t == Graph.initializer[idx]
         r == get_tensor(t, t.name)
     IN IF r.tag = "Ok"
          THEN values' = (IF t.name \in DOMAIN inputs THEN values
                          ELSE MapInsert(values, t.name, r.value))
               /\ Goto("initializer", idx + 1) /\ UNCHANGED result
          ELSE Fail(r, "") /\ UNCHANGED values
  /\ UNCHANGED <<model, inputs, executed>>

(* for t in graph.initializer.iter() *)
InsertInitializer ==
  /\ pc = "initializer"
  /\ LET t == Graph.initializer[idx]
         r == get_tensor(t, t.name)
     IN IF r.tag = "Ok"
          THEN values' = MapInsert(values, t.name, r.value)
               /\ Goto("initializer", idx + 1) /\ UNCHANGED result
          ELSE Fail(r, "") /\ UNCHANGED values
  /\ UNCHANGED <<model, inputs, executed>>

(* for input in graph.input.iter() *)
CheckInput ==
  /\ pc = "input"
  /\ LET r == ValidateInput(Graph.input[idx], values)
     IN IF r.tag = "Ok" THEN Goto("input", idx + 1) /\ UNCHANGED result
        ELSE Fail(r, "")
  /\ UNCHANGED <<model, inputs, values, executed>>

(* the element vectors a computed rank-1 I64 operand of the node may hold *)
OracleElems == {-1, 0, 1, 2}
Oracles(node, vals) ==
  IF node.op_type \in {"Reshape", "Squeeze"} /\ Len(node.input) >= 2
     /\ node.input[2] \in DOMAIN vals /\ Rank(vals[node.input[2]]) = 1
     /\ vals[node.input[2]].data[1] # "lit"
    THEN [1..vals[node.input[2]].dims[1] -> OracleElems]
    ELSE {<<>>}

(* variant: the node's first input is released once the node has run *)
RunNodeReleasesInput ==
  /\ pc = "node"
  /\ LET node == Graph.node[idx]
     IN \E oracle \in Oracles(node, values) :
          LET r == Bind(EvalNode(node, values, oracle), LAMBDA out :
                     IF Len(node.output) = 0 THEN Panic("index out of bounds") ELSE Ok(out))
          IN IF r.tag = "Ok"
               THEN /\ values' = MapInsert(IF Len(node.input) > 0
                                             THEN MapRemove(values, node.input[1]) ELSE values,
                                           node.output[1], r.value)
                    /\ executed' = Append(executed, idx)
                    /\ Goto("node", idx + 1)
                    /\ UNCHANGED result
               ELSE Fail(r, node.name) /\ UNCHANGED <<values, executed>>
  /\ UNCHANGED <<model, inputs>>

(* for node in graph.node.iter(): the handler, then                         *)
(* values.insert(node.output[0].clone(), output)                           *)
RunNode ==
  /\ pc = "node"
  /\ LET node == Graph.node[idx]
     IN \E oracle \in Oracles(node, values) :
          LET r == Bind(EvalNode(node, values, oracle), LAMBDA out :
                     IF Len(node.output) = 0 THEN Panic("index out of bounds") ELSE Ok(out))
          IN IF r.tag = "Ok"
               THEN /\ values' = MapInsert(values, node.output[1], r.value)
                    /\ executed' = Append(executed, idx)
                    /\ Goto("node", idx + 1)
                    /\ UNCHANGED result
               ELSE Fail(r, node.name) /\ UNCHANGED <<values, executed>>
  /\ UNCHANGED <<model, inputs>>

(* variant: an output name that is not bound is skipped instead of failing *)
ExtractOutputSkipsMissing ==
  /\ pc = "output"
  /\ LET name == Graph.output[idx].name
     IN IF name \in DOMAIN values
          THEN /\ result' = MapInsert(result, name, values[name])
               /\ values' = MapRemove(values, name)
               /\ Goto("output", idx + 1)
          ELSE Goto("output", idx + 1) /\ UNCHANGED <<values, result>>
  /\ UNCHANGED <<model, inputs, executed>>

(* variant: an extracted output stays bound in the environment *)
ExtractOutputKeepsBinding ==
  /\ pc = "output"
  /\ LET name == Graph.output[idx].name
     IN IF name \in DOMAIN values
          THEN /\ result' = MapInsert(result, name, values[name])
               /\ values' = values
               /\ Goto("output", idx + 1)
          ELSE Fail(Err("MissingOutput", name), "") /\ UNCHANGED values
  /\ UNCHANGED <<model, inputs, executed>>

(* graph.output.iter().map(|output| values.remove(&output.name) ...).collect() *)
ExtractOutput ==
  /\ pc = "output"
  /\ LET name == Graph.output[idx].name
     IN IF name \in DOMAIN values
          THEN /\ result' = MapInsert(result, name, values[name])
               /\ values' = MapRemove(values, name)
               /\ Goto("output", idx + 1)
          ELSE Fail(Err("MissingOutput", name), "") /\ UNCHANGED values
  /\ UNCHANGED <<model, inputs, executed>>

Next == Begin \/ InsertInitializer \/ CheckInput \/ RunNode \/ ExtractOutput

(* the state at the call of simple_eval(model, inputs) *)
InitOver(Models, Callers) ==
  /\ model \in Models
  /\ inputs \in Callers
  /\ values = EmptyMap
  /\ pc = "start"
  /\ idx = 0
  /\ status = "running"
  /\ error = NoError
  /\ result = EmptyMap
  /\ executed = <<>>

(* ------------------- builders of the call's arguments ------------------ *)
Lit(dt, dims, fill) == Tensor(dt, dims, <<"lit", [i \in 1..Product(dims) |-> fill]>>)
VecI64(elems) == Tensor("I64", <<Len(elems)>>, <<"lit", elems>>)

(* onnx::TensorProto with its elements in raw_data *)
RawProto(name, data_type, dims, fill) ==
  [name |-> name, dims |-> dims, data_type |-> data_type, float_data |-> <<>>,
   double_data |-> <<>>, int64_data |-> <<>>,
   raw_data |-> [i \in 1..Product(dims) |-> fill]]

(* onnx::TensorProto with its elements in int64_data *)
Int64Proto(name, elems) ==
  [name |-> name, dims |-> <<Len(elems)>>, data_type |-> 7, float_data |-> <<>>,
   double_data |-> <<>>, int64_data |-> elems, raw_data |-> <<>>]

(* onnx::ValueInfoProto *)
Untyped(name) == [name |-> name, type |-> None]
TypeUnset(name) == [name |-> name, type |-> Some([value |-> None])]
SequenceTyped(name) ==
  [name |-> name,
   type |-> Some([value |-> Some([kind |-> "SequenceType", elem_type |-> 0, shape |-> None])])]
TensorTyped(name, elem_type, shape) ==
  [name |-> name,
   type |-> Some([value |-> Some([kind |-> "TensorType", elem_type |-> elem_type,
                                  shape |-> shape])])]
DimValue(v) == [value |-> Some([kind |-> "DimValue", v |-> v])]
DimParam == [value |-> Some([kind |-> "DimParam", v |-> 0])]
DimUnset == [value |-> None]
Shape(dim) == Some([dim |-> dim])

(* onnx::AttributeProto *)
AttrInt(name, i) ==
  [name |-> name, type |-> "Int", i |-> i, f |-> "0", ints |-> <<>>, s |-> "", t |-> None]
AttrInts(name, ints) ==
  [name |-> name, type |-> "Ints", i |-> 0, f |-> "0", ints |-> ints, s |-> "", t |-> None]
AttrString(name, str) ==
  [name |-> name, type |-> "String", i |-> 0, f |-> "0", ints |-> <<>>, s |-> str, t |-> None]
AttrFloat(name, f) ==
  [name |-> name, type |-> "Float", i |-> 0, f |-> f, ints |-> <<>>, s |-> "", t |-> None]
AttrTensor(name, t) ==
  [name |-> name, type |-> "Tensor", i |-> 0, f |-> "0", ints |-> <<>>, s |-> "", t |-> t]

(* onnx::NodeProto *)
Node(op_type, name, input, output, attribute) ==
  [op_type |-> op_type, name |-> name, input |-> input, output |-> output,
   attribute |-> attribute]

Output(name) == [name |-> name]

GraphProto(initializer, input, node, output) ==
  [initializer |-> initializer, input |-> input, node |-> node, output |-> output]

Models(Initializers, Inputs, Nodes, Outputs) ==
  {[graph |-> Some(GraphProto(i, d, n, o))] :
     i \in Initializers, d \in Inputs, n \in Nodes, o \in Outputs}

(* caller mappings: every way to bind some of the names to one of its tensors *)
Bindings(choices) ==
  UNION {{f \in [D -> UNION {choices[n] : n \in D}] : \A n \in D : f[n] \in choices[n]} :
           D \in SUBSET DOMAIN choices}

(* --------- Spec: whole calls over short graphs and output lists -------- *)
X23 == Lit("F32", <<2, 3>>, 1)
Y23 == Lit("F32", <<2, 3>>, 2)

SmallNodes ==
  {Node("Add", "add", <<"x", "y">>, <<"z">>, <<>>),
   Node("Abs", "abs", <<"z">>, <<"x">>, <<>>),
   Node("Dropout", "drop", <<"x">>, <<"y">>, <<>>),
   Node("Transpose", "tr", <<"x">>, <<"z">>, <<>>),
   Node("Loop", "loop", <<"x">>, <<"z">>, <<>>)}

Init ==
  InitOver({[graph |-> None]} \cup
           Models({<<>>, <<RawProto("y", 1, <<2, 3>>, 3)>>},
                  {<<>>, <<TensorTyped("x", 1, Shape(<<DimValue(2), DimValue(3)>>))>>},
                  SeqsUpTo(SmallNodes, MaxNodes),
                  SeqsUpTo({Output(n) : n \in {"x", "y", "z"}}, MaxOutputs)),
           Bindings([x |-> {X23}, y |-> {Y23}]))

Spec == Init /\ [][Next]_vars

(* ------ SpecInputs: declared inputs against callers and initializers ---- *)
Dims23 == Shape(<<DimValue(2), DimValue(3)>>)

InputDecls ==
  {Untyped("x"), TypeUnset("x"), SequenceTyped("x"),
   TensorTyped("x", 1, None), TensorTyped("x", 1, Dims23), TensorTyped("x", 7, Dims23),
   TensorTyped("x", 1, Shape(<<DimValue(2)>>)), TensorTyped("x", 6, Dims23),
   TensorTyped("x", 99, Dims23), TensorTyped("x", 1, Shape(<<DimParam, DimValue(3)>>)),
   TensorTyped("x", 1, Shape(<<DimValue(2), DimUnset>>)),
   Untyped("y"), TensorTyped("y", 1, Dims23)}

InitInputs ==
  InitOver(Models({<<>>, <<RawProto("x", 1, <<2, 3>>, 3)>>, <<Int64Proto("x", <<2, 3>>)>>,
                   <<RawProto("y", 6, <<1>>, 3)>>},
                  SeqsUpTo(InputDecls, MaxInputs),
                  {<<Node("Abs", "abs", <<"x">>, <<"z">>, <<>>)>>,
                   <<Node("Neg", "neg", <<"y">>, <<"z">>, <<>>)>>,
                   <<Node("Constant", "const", <<>>, <<"z">>,
                          <<AttrTensor("value", Some(Int64Proto("", <<1>>)))>>)>>},
                  {<<Output("z")>>}),
           Bindings([x |-> {X23, Lit("I64", <<2, 3>>, 1), Lit("F32", <<2>>, 1)},
                     y |-> {Y23}]))

SpecInputs == InitInputs /\ [][Next]_vars

(* ------------- SpecNodes: node lists over every operator type ---------- *)
I1122 == Lit("F32", <<1, 1, 2, 2>>, 4)
K1111 == Lit("F32", <<1, 1, 1, 1>>, 5)
Chan1 == Lit("F32", <<1>>, 6)
S32 == VecI64(<<3, 2>>)

NodeCatalog ==
  {Node("Add", "add", <<"x", "y">>, <<"z">>, <<>>),
   Node("Sub", "sub", <<"x", "c">>, <<"z">>, <<>>),
   Node("Mul", "mul", <<"z", "x">>, <<"z">>, <<>>),
   Node("Div", "div", <<"x", "i">>, <<"z">>, <<>>),
   Node("Equal", "equal", <<"x", "y">>, <<"z">>, <<>>),
   Node("MatMul", "matmul", <<"x", "y">>, <<"z">>, <<>>),
   Node("Reshape", "reshape", <<"x", "s">>, <<"z">>, <<>>),
   Node("LogSoftmax", "logsoftmax", <<"x">>, <<"x">>, <<>>),
   Node("Softmax", "softmax", <<"z">>, <<"z">>, <<AttrInt("axis", 1)>>),
   Node("Transpose", "transpose", <<"x">>, <<"z">>, <<AttrInts("perm", <<1, 0>>)>>),
   Node("Dropout", "dropout", <<"x", "ratio">>, <<"z", "mask">>, <<>>),
   Node("MaxPool", "maxpool", <<"i">>, <<"z">>, <<AttrInts("kernel_shape", <<2, 2>>)>>),
   Node("AveragePool", "avgpool", <<"ghost">>, <<"z">>,
        <<AttrInts("kernel_shape", <<1, 1>>), AttrInts("pads", <<0, 1, 0, 0>>)>>),
   Node("BatchNormalization", "bn", <<"i", "c", "c", "c", "c">>, <<"z">>,
        <<AttrFloat("epsilon", "1e-3")>>),
   Node("Squeeze", "squeeze", <<"i">>, <<"z">>, <<>>),
   Node("Clip", "clip", <<"x", "c">>, <<"z">>, <<>>),
   Node("Conv", "conv", <<"i", "k", "c">>, <<"z">>, <<AttrInts("pads", <<0, 1, 0, 1>>)>>),
   Node("Concat", "concat", <<"x", "y">>, <<"z">>, <<AttrInt("axis", 1)>>),
   Node("Abs", "abs", <<"z">>, <<"y">>, <<>>),
   Node("Cos", "cos", <<"y">>, <<"z">>, <<>>),
   Node("Sin", "sin", <<"x">>, <<"z">>, <<>>),
   Node("Neg", "neg", <<>>, <<"z">>, <<>>),
   Node("Erf", "erf", <<"x">>, <<"z">>, <<>>),
   Node("Tanh", "tanh", <<"x">>, <<"z">>, <<>>),
   Node("Sigmoid", "sigmoid", <<"x">>, <<"z">>, <<>>),
   Node("Gelu", "gelu", <<"x">>, <<"z">>, <<>>),
   Node("Relu", "relu", <<"x">>, <<>>, <<>>),
   Node("Constant", "constant", <<>>, <<"s">>,
        <<AttrTensor("value", Some(Int64Proto("", <<-1>>)))>>),
   Node("Cast", "cast", <<"x">>, <<"z">>, <<AttrInt("to", 7)>>),
   Node("Loop", "loop", <<"x">>, <<"z">>, <<>>),
   Node("If", "if", <<"ghost">>, <<"x">>, <<>>)}

NodeCallers ==
  {[x |-> X23, y |-> Y23, s |-> S32, i |-> I1122, k |-> K1111, c |-> Chan1],
   [x |-> X23, s |-> S32, i |-> I1122, k |-> K1111, c |-> Chan1]}

InitNodes ==
  InitOver(Models({<<Int64Proto("s", <<2, 3>>)>>},
                  {<<Untyped("x")>>},
                  SeqsUpTo(NodeCatalog, MaxNodes),
                  {<<Output("z")>>}),
           NodeCallers)

SpecNodes == InitNodes /\ [][Next]_vars

(* -------- SpecReshape: one Reshape node over shapes and targets -------- *)
ReshapeShapes == {<<24>>, <<2, 12>>, <<2, 3, 4>>, <<4, 6>>, <<6>>, <<2, 3>>, <<3>>}
TargetElems == {-1, 0, 2, 3, 4, 12}

InitReshape ==
  InitOver({[graph |-> Some(GraphProto(<<Int64Proto("s", t)>>, <<Untyped("x")>>,
                                       <<Node("Reshape", "reshape", <<"x", "s">>, <<"z">>, <<>>)>>,
                                       <<Output("z")>>))] :
              t \in SeqsUpTo(TargetElems, MaxTargetLen)},
           {[x |-> Lit("F32", d, 1)] : d \in ReshapeShapes})

SpecReshape == InitReshape /\ [][Next]_vars

(* ---- SpecAxis: one Softmax, LogSoftmax or Concat node over its axis --- *)
AxisShapes == {<<3>>, <<2, 3>>, <<2, 3, 4>>}
AxisValues == -3..3

AxisNodes ==
  {Node(op, "axis", <<"x">>, <<"z">>, a) :
     op \in {"Softmax", "LogSoftmax"}, a \in {<<>>} \cup {<<AttrInt("axis", v)>> : v \in AxisValues}}
  \cup {Node("Concat", "axis", <<"x", "y">>, <<"z">>, <<AttrInt("axis", v)>>) : v \in AxisValues}

InitAxis ==
  InitOver({[graph |-> Some(GraphProto(<<RawProto("y", 1, d, 2)>>, <<Untyped("x")>>, <<n>>,
                                       <<Output("z")>>))] :
              d \in AxisShapes, n \in AxisNodes},
           {[x |-> Lit("F32", d, 1)] : d \in AxisShapes})

SpecAxis == InitAxis /\ [][Next]_vars

(* ------ SpecTranspose: one Transpose node with and without perm -------- *)
TransposeShapes == {<<2, 3>>, <<2, 3, 4>>, <<1, 3, 4>>}

TransposeNodes ==
  {Node("Transpose", "transpose", <<"x">>, <<"z">>, a) :
     a \in {<<>>} \cup {<<AttrInts("perm", q)>> : q \in SeqsUpTo({0, 1, 2}, 3)}}

InitTranspose ==
  InitOver({[graph |-> Some(GraphProto(i, <<Untyped("x")>>, <<n>>, <<Output("z")>>))] :
              i \in {<<>>, <<RawProto("x", 1, <<3, 2, 2>>, 2)>>}, n \in TransposeNodes},
           {[x |-> Lit("F32", d, 1)] : d \in TransposeShapes})

SpecTranspose == InitTranspose /\ [][Next]_vars

(* ------- SpecConv: one Conv node over pads, strides and shapes --------- *)
MaxPad == 2

ConvInputShapes == {<<1, 1, 3, 3>>, <<1, 2, 2, 4>>, <<1, 1, 4>>}
ConvWeightShapes == {<<1, 1, 1, 1>>, <<2, 1, 2, 2>>, <<1, 2, 2, 3>>, <<1, 1, 2>>}

ConvPads ==
  {<<>>} \cup {<<AttrInts("pads", p)>> :
                 p \in [1..4 -> 0..MaxPad] \cup [1..2 -> 0..MaxPad] \cup [1..1 -> 0..MaxPad]}
ConvStrides ==
  {<<>>, <<AttrInts("strides", <<2, 2>>)>>, <<AttrInts("strides", <<1, 2>>)>>}

ConvNodes ==
  {Node("Conv", "conv", i, <<"z">>, p \o s) :
     i \in {<<"x", "w">>, <<"x", "w", "b">>}, p \in ConvPads, s \in ConvStrides}

InitConv ==
  InitOver({[graph |-> Some(GraphProto(<<RawProto("w", 1, d, 5)>>, <<Untyped("x")>>, <<n>>,
                                       <<Output("z")>>))] :
              d \in ConvWeightShapes, n \in ConvNodes},
           {[x |-> Lit("F32", d, 1), b |-> Chan1] : d \in ConvInputShapes})

SpecConv == InitConv /\ [][Next]_vars

(* ------ SpecSqueeze: one Squeeze node with and without an axes input ---- *)
MaxAxes == 2

SqueezeShapes == {<<1, 3, 1, 4>>, <<2, 5, 1>>, <<2, 1, 1>>, <<1, 1>>, <<3>>}
SqueezeAxisValues == -4..3

InitSqueeze ==
  InitOver({[graph |-> Some(GraphProto(<<Int64Proto("a", a)>>, <<Untyped("x")>>,
                                       <<Node("Squeeze", "squeeze", i, <<"z">>, <<>>)>>,
                                       <<Output("z")>>))] :
              a \in SeqsUpTo(SqueezeAxisValues, MaxAxes), i \in {<<"x">>, <<"x", "a">>}},
           {[x |-> Lit("F32", d, 1)] : d \in SqueezeShapes})

SpecSqueeze == InitSqueeze /\ [][Next]_vars

(* ---- SpecClip: one Clip node over the ways to give its two bounds ----- *)
ClipInputs ==
  {<<"x">>, <<"x", "lo">>, <<"x", "lo", "hi">>, <<"x", "", "hi">>, <<"x", "">>,
   <<"x", "", "">>, <<"x", "lo", "">>}
ClipShapes == {<<2, 3>>, <<3>>, <<1>>}
ClipBoundShapes == {<<1>>, <<3>>, <<2>>}

InitClip ==
  InitOver({[graph |-> Some(GraphProto(<<RawProto("hi", 1, d, 9)>>, <<Untyped("x")>>,
                                       <<Node("Clip", "clip", i, <<"z">>, <<>>)>>,
                                       <<Output("z")>>))] :
              d \in ClipBoundShapes, i \in ClipInputs},
           {[x |-> Lit("F32", d, 1), lo |-> Lit("F32", b, 0)] :
              d \in ClipShapes, b \in ClipBoundShapes})

SpecClip == InitClip /\ [][Next]_vars

(* --- SpecShadow: initializers and caller inputs under the same name ---- *)
ShadowInitializers ==
  {<<>>, <<RawProto("y", 1, <<2, 3>>, 3)>>, <<Int64Proto("y", <<4, 5>>)>>,
   <<Int64Proto("y", <<4, 5>>), RawProto("y", 1, <<2, 3>>, 3)>>}

ShadowNodes ==
  {Node("Abs", "abs", <<"y">>, <<"z">>, <<>>),
   Node("Dropout", "drop", <<"x">>, <<"y">>, <<>>),
   Node("Add", "add", <<"x", "y">>, <<"z">>, <<>>),
   Node("Neg", "neg", <<"z">>, <<"y">>, <<>>)}

InitShadow ==
  InitOver(Models(ShadowInitializers,
                  {<<>>, <<TensorTyped("y", 1, Dims23)>>},
                  SeqsUpTo(ShadowNodes, MaxNodes),
                  {<<Output("z")>>}),
           Bindings([x |-> {X23}, y |-> {Y23, VecI64(<<7>>)}]))

SpecShadow == InitShadow /\ [][Next]_vars

(* ------------------------------- claims -------------------------------- *)
OutputNames == {Graph.output[k].name : k \in 1..Len(Graph.output)}

(* what has been extracted so far together with what is still in the       *)
(* environment                                                             *)
Drained ==
  [n \in DOMAIN result \cup DOMAIN values |-> IF n \in DOMAIN result THEN result[n] ELSE values[n]]

(* C1: a successful call returns an entry for every declared output name,  *)
(* and each entry is the tensor the environment held under that name after *)
(* the last node (extraction starts from an empty mapping and only moves   *)
(* bindings from the environment to the mapping); a declared output name   *)
(* that is not bound when it is extracted fails the call, which then       *)
(* returns no mapping.                                                     *)
C1_OutputContract ==
  /\ [](status = "ok" => IsSome(model.graph) /\ DOMAIN result = OutputNames)
  /\ [](pc \in {"start", "initializer", "input", "node"} => result = EmptyMap)
  /\ [][pc = "output" =>
          IF Graph.output[idx].name \in DOMAIN values
            THEN status' # "err" /\ Drained' = Drained
                 /\ Graph.output[idx].name \in DOMAIN result'
            ELSE status' = "err" /\ error'.kind = "MissingOutput" /\ result' = EmptyMap]_vars

C1_Witness ==
  status = "ok" /\ Cardinality(DOMAIN result) = 2 /\ Len(executed) = 2

(* no node has run and none will: the call is still seeding or validating, *)
(* or it failed there                                                      *)
BeforeNodes ==
  /\ executed = <<>>
  /\ \/ pc \in {"start", "initializer", "input"}
     \/ pc = "failed" /\ error.phase \in {"start", "initializer", "input"}

HasTensorType(d) ==
  IsSome(d.type) /\ IsSome(d.type[1].value) /\ d.type[1].value[1].kind = "TensorType"

(* the declaration names a supported element type and a shape of sizes only *)
DeclaredConcrete(d) ==
  /\ HasTensorType(d)
  /\ DeclaredDType(d.type[1].value[1]).tag = "Ok"
  /\ IsSome(d.type[1].value[1].shape)
  /\ DeclaredDims(d.type[1].value[1].shape[1], d.name).tag = "Ok"

Differs(t, d) ==
  \/ t.dtype # DeclaredDType(d.type[1].value[1]).value
  \/ t.dims # DeclaredDims(d.type[1].value[1].shape[1], d.name).value

InitializersNamed(n) == {k \in 1..Len(Graph.initializer) : Graph.initializer[k].name = n}
LastInitializerNamed(n) ==
  Graph.initializer[CHOOSE k \in InitializersNamed(n) : \A j \in InitializersNamed(n) : j <= k]

(* the tensor validation finds under a name: the last initializer of that  *)
(* name when there is one, else the caller's                               *)
SeededBound(n) ==
  IF InitializersNamed(n) # {}
    THEN get_tensor(LastInitializerNamed(n), n).tag = "Ok"
    ELSE n \in DOMAIN inputs
Seeded(n) ==
  IF InitializersNamed(n) # {} THEN get_tensor(LastInitializerNamed(n), n).value ELSE inputs[n]

(* C2 as stated: a caller-supplied tensor whose dtype or dimension list    *)
(* differs from a concrete declaration makes the call fail before any node *)
(* runs.                                                                   *)
C2_SuppliedMismatchFails ==
  IsSome(model.graph) =>
    \A k \in 1..Len(Graph.input) :
      LET d == Graph.input[k]
      IN (DeclaredConcrete(d) /\ d.name \in DOMAIN inputs /\ Differs(inputs[d.name], d))
           => BeforeNodes

(* C2 amended: for every declared input with a concrete element type and   *)
(* shape, if the tensor bound under its name when validation runs (the     *)
(* caller's, or the last initializer of that name, which replaces it)      *)
(* differs in dtype or dimension list from the declaration, the call fails *)
(* before any node runs and no node output is ever inserted.               *)
C2_BoundMismatchFails ==
  IsSome(model.graph) =>
    \A k \in 1..Len(Graph.input) :
      LET d == Graph.input[k]
      IN (DeclaredConcrete(d) /\ SeededBound(d.name) /\ Differs(Seeded(d.name), d))
           => BeforeNodes

C2_Witness ==
  /\ pc = "failed" /\ error.phase = "input" /\ error.kind = "UnexpectedShape"
  /\ Len(Graph.node) > 0 /\ executed = <<>>

(* C3 as stated: every declared input that is neither supplied by the      *)
(* caller nor an initializer makes the call fail before any node runs,     *)
(* with or without a type descriptor.                                      *)
C3_AnyMissingInputFails ==
  IsSome(model.graph) =>
    \A k \in 1..Len(Graph.input) :
      LET d == Graph.input[k]
      IN (d.name \notin DOMAIN inputs /\ InitializersNamed(d.name) = {}) => BeforeNodes

(* C3 amended: a declared input that carries a tensor type descriptor and  *)
(* is neither supplied by the caller nor an initializer makes the call     *)
(* fail before any node runs; a declared input without a tensor type       *)
(* descriptor is not looked up at all.                                     *)
C3_TypedMissingInputFails ==
  IsSome(model.graph) =>
    /\ \A k \in 1..Len(Graph.input) :
         LET d == Graph.input[k]
         IN (HasTensorType(d) /\ d.name \notin DOMAIN inputs /\ InitializersNamed(d.name) = {})
              => BeforeNodes
    /\ (pc = "failed" /\ error.kind = "MissingInput") =>
         /\ error.phase = "input"
         /\ HasTensorType(Graph.input[idx])
         /\ error.what = Graph.input[idx].name
         /\ error.what \notin DOMAIN values

C3_Witness ==
  /\ pc = "failed" /\ error.kind = "MissingInput" /\ Len(Graph.node) > 0
  /\ error.what \notin DOMAIN inputs

HasDimParam(d) ==
  /\ HasTensorType(d)
  /\ IsSome(d.type[1].value[1].shape)
  /\ \E k \in 1..Len(d.type[1].value[1].shape[1].dim) :
       d.type[1].value[1].shape[1].dim[k] = DimParam

(* C4 as stated: a symbolic dimension in a declared shape is accepted, the *)
(* call never fails because of it.                                         *)
C4_DimParamAccepted ==
  ~(status = "err" /\ error.kind = "DimParamUnsupported")

(* C4 amended: a declared tensor-typed input whose shape contains a        *)
(* symbolic dimension is refused: the call fails before any node runs, and *)
(* when that input is the one validation stops at, is bound, has a         *)
(* supported element type and no unset dimension, the failure is the       *)
(* DimParam-unsupported error naming it.                                   *)
C4_DimParamRefused ==
  IsSome(model.graph) =>
    /\ \A k \in 1..Len(Graph.input) : HasDimParam(Graph.input[k]) => BeforeNodes
    /\ (pc = "failed" /\ error.phase = "input" /\ HasDimParam(Graph.input[idx])
        /\ Graph.input[idx].name \in DOMAIN values
        /\ DeclaredDType(Graph.input[idx].type[1].value[1]).tag = "Ok"
        /\ \A k \in 1..Len(Graph.input[idx].type[1].value[1].shape[1].dim) :
             Graph.input[idx].type[1].value[1].shape[1].dim[k] # DimUnset)
         => (status = "err" /\ error.kind = "DimParamUnsupported"
             /\ error.what = Graph.input[idx].name)

C4_Witness ==
  /\ pc = "failed" /\ status = "err" /\ error.kind = "DimParamUnsupported"
  /\ error.what \in DOMAIN values /\ Len(Graph.node) > 0

CurrentNode == Graph.node[idx]

(* the call has ended without a result and takes no further step *)
FailedFor(kinds) == pc' = "failed" /\ status' \in kinds /\ result' = EmptyMap

(* C5: a node whose operator type has no handler fails the call with an    *)
(* unsupported-operator error that names the operator type and the node;   *)
(* the environment stays as the preceding nodes left it, no later node     *)
(* runs (a failed call takes no further step) and no mapping is returned.  *)
C5_UnsupportedOperator ==
  /\ [][(pc = "node" /\ CurrentNode.op_type \notin SupportedOps) =>
          /\ FailedFor({"err"})
          /\ error' = [kind |-> "UnsupportedOperator", what |-> CurrentNode.op_type,
                       node |-> CurrentNode.name, phase |-> "node"]
          /\ values' = values
          /\ executed' = executed]_vars
  /\ [][pc # "failed"]_vars
  /\ [](pc = "failed" => status # "ok" /\ result = EmptyMap)

(* the second node is a Loop: the first node's output is still bound *)
C5_Witness ==
  /\ pc = "failed" /\ error.kind = "UnsupportedOperator" /\ error.what = "Loop"
  /\ executed = <<1>> /\ idx = 2 /\ "z" \in DOMAIN values

(* C6: a step of the node loop either fails the whole call, leaving the    *)
(* environment alone, or binds exactly the node's first output name and    *)
(* leaves every other binding as it was; so no name is ever unbound while  *)
(* nodes are processed.                                                    *)
C6_OneInsertPerNode ==
  [][pc = "node" =>
       \/ FailedFor({"err", "panic"}) /\ values' = values
       \/ /\ status' # "err" /\ status' # "panic"
          /\ Len(CurrentNode.output) >= 1
          /\ DOMAIN values' = DOMAIN values \cup {CurrentNode.output[1]}
          /\ \A n \in DOMAIN values \ {CurrentNode.output[1]} : values'[n] = values[n]
          /\ values'[CurrentNode.output[1]] \in
               {EvalNode(CurrentNode, values, o).value : o \in Oracles(CurrentNode, values)}]_vars

(* a node has overwritten a name the caller supplied, and a node with two  *)
(* declared outputs has bound only its first                               *)
C6_Witness ==
  /\ pc = "output" /\ Len(executed) = 2
  /\ Graph.node[1].op_type = "LogSoftmax" /\ values["x"] # inputs["x"]
  /\ Graph.node[2].op_type = "Dropout" /\ "z" \in DOMAIN values /\ "mask" \notin DOMAIN values

(* the positions of node.input the node's handler looks up *)
ReadInputs(node) ==
  LET n == Len(node.input)
  IN CASE node.op_type \in {"Add", "Sub", "Mul", "Div", "Equal", "MatMul", "Reshape"} -> {1, 2}
       [] node.op_type = "BatchNormalization" -> 1..5
       [] node.op_type = "Squeeze" -> IF n <= 1 THEN {1} ELSE {1, 2}
       [] node.op_type = "Clip" -> {1} \cup (IF n >= 2 THEN {2} ELSE {}) \cup (IF n >= 3 THEN {3} ELSE {})
       [] node.op_type = "Conv" -> {1, 2} \cup (IF n > 2 THEN {3} ELSE {})
       [] node.op_type = "Concat" -> 1..n
       [] node.op_type = "Constant" -> {}
       [] node.op_type \notin SupportedOps -> {}
       [] OTHER -> {1}

(* the handlers whose first step is the lookup of node.input[0] *)
ReadsFirst(node) ==
  node.op_type \in SupportedOps
    \ {"MaxPool", "AveragePool", "BatchNormalization", "Conv", "Constant"}

Unbound(node, S) == \E i \in S : i <= Len(node.input) /\ node.input[i] \notin DOMAIN values

(* nodes run one by one in the order of the list: the executed nodes are   *)
(* always 1, 2, .. up to the current one, all of them once the call        *)
(* succeeds, and a failed call takes no further step                       *)
InListOrder ==
  /\ [](executed = [i \in 1..Len(executed) |-> i])
  /\ [](pc = "node" => Len(executed) = idx - 1)
  /\ [](status = "ok" => Len(executed) = Len(Graph.node))
  /\ [][pc # "failed"]_vars

(* C7 as stated: nodes run once each in list order, and a node any of      *)
(* whose input names is unbound at its turn fails the call with a          *)
(* missing-value error, after which no node runs.                          *)
C7_AnyUnboundInputFails ==
  /\ InListOrder
  /\ [][(pc = "node" /\ Unbound(CurrentNode, 1..Len(CurrentNode.input))) =>
          /\ FailedFor({"err"})
          /\ error'.kind = "MissingValue"
          /\ executed' = executed]_vars

(* C7 amended: nodes run once each in list order; a node whose handler     *)
(* looks up an input name that is unbound at its turn fails the call,      *)
(* inserts nothing, and no later node runs; the failure is the             *)
(* missing-value error naming that input when the lookup is the handler's  *)
(* first step and the input is its first.  Input names the handler never   *)
(* looks up are not required to be bound.                                  *)
C7_ReadUnboundInputFails ==
  /\ InListOrder
  /\ [][(pc = "node" /\ Unbound(CurrentNode, ReadInputs(CurrentNode))) =>
          /\ FailedFor({"err", "panic"})
          /\ values' = values
          /\ executed' = executed]_vars
  /\ [][(pc = "node" /\ ReadsFirst(CurrentNode) /\ Unbound(CurrentNode, {1})) =>
          /\ FailedFor({"err"})
          /\ error' = [kind |-> "MissingValue", what |-> CurrentNode.input[1],
                       node |-> CurrentNode.name, phase |-> "node"]]_vars

(* the first node failed on a name that only the second node produces *)
C7_Witness ==
  /\ pc = "failed" /\ idx = 1 /\ executed = <<>> /\ Len(Graph.node) = 2
  /\ error.kind = "MissingValue" /\ error.what = "z"
  /\ Graph.node[2].output = <<"z">> /\ "z" \notin DOMAIN values

(* the single node of the graph has been handled *)
NodeHandled ==
  pc \in {"output", "done"} \/ (pc = "failed" /\ error.phase \in {"node", "output"})
NodeFailed == pc = "failed" /\ error.phase = "node"

(* the tensor the environment held under a name when the node loop began *)
Operand(n) == IF InitializersNamed(n) # {} THEN Seeded(n) ELSE inputs[n]

(* the shape a Reshape target denotes: 0 copies the input dimension at the *)
(* same index, then the single -1 takes what is left of the element count  *)
ZerosCopied(dims, target) ==
  [i \in 1..Len(target) |-> IF target[i] = 0 THEN dims[i] ELSE target[i]]
KnownProduct(dims, target) ==
  Product([i \in 1..Len(target) |->
             IF ZerosCopied(dims, target)[i] = -1 THEN 1 ELSE ZerosCopied(dims, target)[i]])
DenotedShape(dims, target) ==
  [i \in 1..Len(target) |->
     IF ZerosCopied(dims, target)[i] = -1 THEN Product(dims) \div KnownProduct(dims, target)
     ELSE ZerosCopied(dims, target)[i]]
TargetFits(dims, target) ==
  /\ Cardinality({i \in 1..Len(target) : target[i] = -1}) <= 1
  /\ \A i \in 1..Len(target) : target[i] = 0 => i <= Len(dims)
  /\ Product(DenotedShape(dims, target)) = Product(dims)

(* C8: Reshape gives its input the shape its target denotes (0 copies the  *)
(* input dimension at the same index, a single -1 is inferred), which has  *)
(* the element count of the input: [-1, 3, 4] on 24 elements gives         *)
(* (2,3,4), [0, -1] on (2,12) gives (2,12).                                *)
C8_ReshapeResolves ==
  (NodeHandled /\ TargetFits(Operand("x").dims, Operand("s").data[2])) =>
     /\ ~NodeFailed
     /\ Drained["z"].dims = DenotedShape(Operand("x").dims, Operand("s").data[2])
     /\ Product(Drained["z"].dims) = ElemCount(Operand("x"))

(* the axis attribute of the single node, and the axis the claim gives it *)
AxisAttr == FindAttr(Graph.node[1], "axis")[1].i
StandardAxis(a, rank) == IF a < 0 THEN rank + a ELSE a

(* C9: Softmax, LogSoftmax and Concat resolve a negative axis a with       *)
(* -rank <= a < 0 to rank + a and use a non-negative axis below the rank   *)
(* as it is: the node succeeds and its kernel is applied along that axis.  *)
C9_NegativeAxisResolves ==
  (NodeHandled /\ IsSome(FindAttr(Graph.node[1], "axis"))
   /\ -Rank(Operand("x")) <= AxisAttr /\ AxisAttr < Rank(Operand("x"))
   /\ (Graph.node[1].op_type = "Concat" => Operand("y").dims = Operand("x").dims)) =>
     /\ ~NodeFailed
     /\ Drained["z"].data[2] = StandardAxis(AxisAttr, Rank(Operand("x")))

Reversed(dims) == [i \in 1..Len(dims) |-> dims[Len(dims) - i + 1]]

(* C10: Transpose without perm reverses the axes of an input of any rank;  *)
(* with a perm that is a permutation of the axes, output axis i is input   *)
(* axis perm[i].                                                           *)
C10_TransposeReverses ==
  NodeHandled =>
    IF IsSome(FindAttr(Graph.node[1], "perm"))
      THEN LET perm == FindAttr(Graph.node[1], "perm")[1].ints
           IN (Len(perm) = Rank(Operand("x")) /\ Range(perm) = 0..(Len(perm) - 1)) =>
                /\ ~NodeFailed
                /\ Drained["z"].dims = [i \in 1..Len(perm) |-> Operand("x").dims[perm[i] + 1]]
      ELSE ~NodeFailed /\ Drained["z"].dims = Reversed(Operand("x").dims)

(* the function a softmax kernel computes and the axis it runs along:      *)
(* softmax_last_dim is the softmax along the last axis                     *)
KernelFunction(t) ==
  IF t.data[1] = "softmax_last_dim" THEN <<"softmax", Rank(t) - 1>>
  ELSE <<t.data[1], t.data[2]>>

(* the single node with its axis attribute set to a *)
WithAxis(node, a) == [node EXCEPT !.attribute = <<AttrInt("axis", a)>>]

(* what the node computes from the operand when its axis is the last one *)
OnLastAxis ==
  EvalNode(WithAxis(Graph.node[1], Rank(Operand("x")) - 1), [x |-> Operand("x")], <<>>)

(* C11: LogSoftmax without an axis attribute computes what LogSoftmax with *)
(* axis = rank - 1 computes (the log-softmax along the last axis), and     *)
(* Softmax without an axis attribute computes what Softmax with            *)
(* axis = rank - 1 computes.                                               *)
C11_DefaultAxisIsLast ==
  (NodeHandled /\ Graph.node[1].op_type \in {"Softmax", "LogSoftmax"}
   /\ ~IsSome(FindAttr(Graph.node[1], "axis"))) =>
     /\ ~NodeFailed
     /\ OnLastAxis.tag = "Ok"
     /\ Drained["z"].dims = OnLastAxis.value.dims
     /\ KernelFunction(Drained["z"]) = KernelFunction(OnLastAxis.value)
     /\ Drained["z"].data[Len(Drained["z"].data)] = Operand("x").data

(* the pads and strides attributes of the single node *)
PadsAttr == FindAttr(Graph.node[1], "pads")[1].ints
StrideOf(node) ==
  IF IsSome(FindAttr(node, "strides")) THEN FindAttr(node, "strides")[1].ints[1] ELSE 1

(* the convolution call behind a Conv output: the bias, when there is one, *)
(* is added on top of it                                                   *)
ConvCall(t) == IF t.data[1] = "add" THEN t.data[2] ELSE t.data

(* the zeros (before, after) that explicit padding put on an axis of the   *)
(* tensor a convolution is called on, and the tensor that was padded       *)
RECURSIVE ExplicitPad(_, _)
ExplicitPad(d, axis) ==
  IF d[1] # "pad_with_zeros" THEN <<0, 0>>
  ELSE IF d[2] = axis
    THEN <<d[3] + ExplicitPad(d[5], axis)[1], d[4] + ExplicitPad(d[5], axis)[2]>>
  ELSE ExplicitPad(d[5], axis)
RECURSIVE Unpadded(_)
Unpadded(d) == IF d[1] = "pad_with_zeros" THEN Unpadded(d[5]) ELSE d

(* zeros on each side of each spatial axis once the call's own padding is  *)
(* added: axis 2 before, axis 3 before, axis 2 after, axis 3 after         *)
EffectivePads(call) ==
  <<call[2] + ExplicitPad(call[6], 2)[1], call[2] + ExplicitPad(call[6], 3)[1],
    call[2] + ExplicitPad(call[6], 2)[2], call[2] + ExplicitPad(call[6], 3)[2]>>

(* a 2-D convolution of the operands with these pads exists *)
ConvFits(xs, ws, node, p) ==
  /\ Rank(xs) = 4 /\ xs.dims[2] = ws.dims[2]
  /\ (IsSome(FindAttr(node, "strides")) =>
        \A k \in 1..Len(FindAttr(node, "strides")[1].ints) :
           FindAttr(node, "strides")[1].ints[k] = StrideOf(node))
  /\ xs.dims[3] + p[1] + p[3] >= ws.dims[3]
  /\ xs.dims[4] + p[2] + p[4] >= ws.dims[4]

(* C12: Conv with a rank-4 weight and pads [p1,p2,p3,p4].  Pads that are   *)
(* not all equal: the input is zero-padded on axis 2 by p1 before and p3   *)
(* after, on axis 3 by p2 before and p4 after, and conv2d is called with   *)
(* padding 0.  All pads equal: conv2d is called on the unpadded input with *)
(* that pad.  Either way the zeros on each side of each spatial axis are   *)
(* the pads attribute, and the output extents are those of a convolution   *)
(* over the input enlarged by them.                                        *)
C12_ConvPadsApplied ==
  (NodeHandled /\ Rank(Operand("w")) = 4 /\ IsSome(FindAttr(Graph.node[1], "pads"))
   /\ Len(PadsAttr) = 4) =>
    LET p == PadsAttr
        xs == Operand("x")
        ws == Operand("w")
        st == StrideOf(Graph.node[1])
    IN /\ ConvFits(xs, ws, Graph.node[1], p) => ~NodeFailed
       /\ ~NodeFailed =>
            LET call == ConvCall(Drained["z"])
            IN /\ call[1] = "conv2d"
               /\ IF p[1] # p[2] \/ p[1] # p[3] \/ p[1] # p[4]
                    THEN /\ call[2] = 0
                         /\ ExplicitPad(call[6], 2) = <<p[1], p[3]>>
                         /\ ExplicitPad(call[6], 3) = <<p[2], p[4]>>
                         /\ Unpadded(call[6]) = xs.data
                    ELSE call[2] = p[1] /\ call[6] = xs.data
               /\ EffectivePads(call) = p
               /\ Drained["z"].dims =
                    <<xs.dims[1], ws.dims[1],
                      (xs.dims[3] + p[1] + p[3] - ws.dims[3]) \div st + 1,
                      (xs.dims[4] + p[2] + p[4] - ws.dims[4]) \div st + 1>>

(* pads [0,1,0,1] on a (1,1,3,3) input: the call returned a convolution    *)
(* with padding 0 of the input padded by one zero on each side of axis 3   *)
C12_Witness ==
  /\ pc = "done" /\ Graph.node[1].op_type = "Conv" /\ Rank(inputs["x"]) = 4
  /\ FindAttr(Graph.node[1], "pads") = Some(AttrInts("pads", <<0, 1, 0, 1>>))
  /\ "z" \in DOMAIN result
  /\ ConvCall(result["z"])[2] = 0
  /\ ConvCall(result["z"])[6] = <<"pad_with_zeros", 3, 1, 1, inputs["x"].data>>

(* the axes list given to the single Squeeze node, and the positions of    *)
(* the input (0-based) it names once negative entries count from the end   *)
AxesGiven == Len(Graph.node[1].input) >= 2
AxesList == Operand("a").data[2]
NamedAxes(rank, axes) ==
  {IF axes[k] < 0 THEN rank + axes[k] ELSE axes[k] : k \in 1..Len(axes)}
AxesInRange(rank, axes) == \A k \in 1..Len(axes) : -rank <= axes[k] /\ axes[k] < rank

(* dims without the positions (0-based) in S *)
RECURSIVE Without(_, _)
Without(dims, S) ==
  IF Len(dims) = 0 THEN <<>>
  ELSE Without(SubSeq(dims, 1, Len(dims) - 1), S)
       \o (IF Len(dims) - 1 \in S THEN <<>> ELSE <<dims[Len(dims)]>>)

(* Squeeze without an axes input: every size-1 dimension but axis 0 goes *)
SqueezeDefault ==
  (NodeHandled /\ ~AxesGiven) =>
    /\ ~NodeFailed
    /\ Drained["z"].dims =
         Without(Operand("x").dims,
                 {i \in 1..(Rank(Operand("x")) - 1) : Operand("x").dims[i + 1] = 1})
    /\ Drained["z"].data = Operand("x").data

Supplied(k) == Len(Graph.node[1].input) >= k /\ Graph.node[1].input[k] # ""

(* the input bounded below by min and above by max, each when supplied *)
Clipped ==
  LET lower == IF Supplied(2) THEN <<"maximum", Operand("x").data, Operand("lo").data>>
               ELSE Operand("x").data
  IN IF Supplied(3) THEN <<"minimum", lower, Operand("hi").data>> ELSE lower

(* C14: a Clip node may supply only min, only max, both or neither; with   *)
(* bounds that broadcast against the input the node succeeds and its       *)
(* output is the input bounded below by min when min is supplied and above *)
(* by max when max is supplied, no bound being applied for one left out.   *)
C14_ClipBoundsOptional ==
  (NodeHandled
   /\ (Supplied(2) => BroadcastShape(Operand("x").dims, Operand("lo").dims) = Operand("x").dims
                      /\ BroadcastCompatible(Operand("x").dims, Operand("lo").dims))
   /\ (Supplied(3) => BroadcastShape(Operand("x").dims, Operand("hi").dims) = Operand("x").dims
                      /\ BroadcastCompatible(Operand("x").dims, Operand("hi").dims))) =>
     /\ ~NodeFailed
     /\ Drained["z"].dims = Operand("x").dims
     /\ Drained["z"].data = Clipped

(* the names the handler of a node looks up *)
NamesRead(node) == {node.input[i] : i \in ReadInputs(node) \cap 1..Len(node.input)}

(* a node that has run inserted its output under the name *)
Written(n) == \E k \in 1..Len(executed) : Graph.node[executed[k]].output[1] = n

(* a declared input that validation refuses is refused for the tensor the  *)
(* initializers left under its name                                        *)
RefusedAsSeeded ==
  (pc = "failed" /\ error.phase = "input"
   /\ error.kind \in {"UnexpectedDType", "UnexpectedShape"}
   /\ InitializersNamed(error.what) # {}) =>
     Differs(Seeded(error.what), Graph.input[idx])

(* C15 as stated: under a name that the caller supplies and an initializer *)
(* carries, the input check and every node reading the name find the       *)
(* initializer's tensor.                                                   *)
C15_InitializerAlwaysSeen ==
  IsSome(model.graph) =>
    /\ RefusedAsSeeded
    /\ \A n \in DOMAIN inputs :
         InitializersNamed(n) # {} =>
           /\ pc = "input" => values[n] = Seeded(n)
           /\ (pc = "node" /\ n \in NamesRead(CurrentNode)) => values[n] = Seeded(n)

(* C15 amended: under such a name the input check finds the tensor of the  *)
(* last initializer of that name, and so does every node reading the name  *)
(* as long as no node has inserted its output under it.                    *)
C15_InitializerSeenUntilWritten ==
  IsSome(model.graph) =>
    /\ RefusedAsSeeded
    /\ \A n \in DOMAIN inputs :
         InitializersNamed(n) # {} =>
           /\ pc = "input" => values[n] = Seeded(n)
           /\ (pc = "node" /\ n \in NamesRead(CurrentNode) /\ ~Written(n)) =>
                values[n] = Seeded(n)

(* the declaration of y was checked against the initializer's tensor, the  *)
(* caller's would have been refused, and the node about to run reads y     *)
C15_Witness ==
  /\ pc = "node" /\ executed = <<>> /\ "y" \in NamesRead(CurrentNode)
  /\ "y" \in DOMAIN inputs /\ InitializersNamed("y") # {}
  /\ Len(Graph.input) = 1 /\ Differs(inputs["y"], Graph.input[1])
  /\ values["y"] = Seeded("y") /\ values["y"] # inputs["y"]

(* the declared output at position j repeats the name of an earlier one *)
RepeatsEarlier(j) == \E i \in 1..(j - 1) : Graph.output[i].name = Graph.output[j].name
DistinctOutputs == \A j \in 1..Len(Graph.output) : ~RepeatsEarlier(j)

(* C16: extraction removes each declared output name from the environment  *)
(* as it reads it.  A declared output that repeats the name of an earlier  *)
(* one therefore finds nothing: the call fails there with a missing-output *)
(* error naming it, and a graph with a repeated output name never returns  *)
(* a mapping.  With pairwise distinct declared output names a successful   *)
(* call returns exactly one entry per declared output.                     *)
C16_OutputsDrained ==
  /\ [][(pc = "output" /\ Graph.output[idx].name \in DOMAIN values) =>
          /\ values' = MapRemove(values, Graph.output[idx].name)
          /\ result' = MapInsert(result, Graph.output[idx].name,
                                 values[Graph.output[idx].name])]_vars
  /\ [](pc = "output" /\ RepeatsEarlier(idx) => Graph.output[idx].name \notin DOMAIN values)
  /\ [][(pc = "output" /\ RepeatsEarlier(idx)) =>
          /\ FailedFor({"err"})
          /\ error' = [kind |-> "MissingOutput", what |-> Graph.output[idx].name,
                       node |-> "", phase |-> "output"]]_vars
  /\ [](status = "ok" =>
          IF DistinctOutputs
            THEN /\ DOMAIN result = OutputNames
                 /\ Cardinality(DOMAIN result) = Len(Graph.output)
            ELSE FALSE)

(* the second declared output repeats the first, a node had computed the   *)
(* value, and the call failed on the second occurrence                     *)
C16_Witness ==
  /\ pc = "failed" /\ error.phase = "output" /\ idx = 2
  /\ Graph.output[1].name = Graph.output[2].name
  /\ error.kind = "MissingOutput" /\ error.what = Graph.output[2].name
  /\ \E k \in 1..Len(executed) : Graph.node[executed[k]].output[1] = error.what
  /\ error.what \notin DOMAIN inputs
====
